---- MODULE Spec2Model ----
(***************************************************************************)
(* The Post Repository of the blog (lib/post.ts): the Source Store         *)
(* directory _posts, the front-matter split, the Markdown-to-HTML pipeline  *)
(* and the four queries getPostSlugs, getPostMeta, getPostList, getPost.    *)
(* Strings whose characters matter (file names, slugs, values) are         *)
(* sequences of one-character strings; a file's text is a sequence of      *)
(* lines.                                                                  *)
(***************************************************************************)
EXTENDS Integers, Sequences, FiniteSets, TLC

VARIABLES store, dirOk, op, top, task, settled, other, matterCache

vars == <<store, dirOk, op, top, task, settled, other, matterCache>>

(* Largest number of entries of the _posts directory. *)
MaxFiles == 2

(* Largest number of entries of the directory while its owner edits it. *)
MaxLiveFiles == 1

(* ------------------------------------------------------------------ *)
(* Strings                                                            *)
(* ------------------------------------------------------------------ *)

MinOf(S) == CHOOSE x \in S : \A y \in S : x <= y

MaxOf(S) == CHOOSE x \in S : \A y \in S : x >= y

Range(s) == {s[i] : i \in 1..Len(s)}

(* The literal '.md' of getPostSlugs and of the path template. *)
MD == <<".", "m", "d">>

(* The positions at which pat occurs in s. *)
Occurrences(s, pat) ==
  {i \in 1..(Len(s) - Len(pat) + 1) : SubSeq(s, i, i + Len(pat) - 1) = pat}

(* String.prototype.replace with a string pattern: the first occurrence
   only, anywhere in the string. *)
ReplaceFirst(s, pat, rep) ==
  IF Occurrences(s, pat) = {} THEN s
  ELSE LET i == MinOf(Occurrences(s, pat))
       IN SubSeq(s, 1, i - 1) \o rep \o SubSeq(s, i + Len(pat), Len(s))

EndsWith(s, suf) ==
  /\ Len(s) >= Len(suf)
  /\ SubSeq(s, Len(s) - Len(suf) + 1, Len(s)) = suf

(* ------------------------------------------------------------------ *)
(* The Source Store                                                   *)
(* ------------------------------------------------------------------ *)

Fence == [t |-> "fence", k |-> "", v |-> <<"-", "-", "-">>]

KV(key, val) == [t |-> "kv", k |-> key, v |-> val]

(* A line of the front-matter block the YAML loader rejects. *)
BadYaml == [t |-> "bad", k |-> "title", v |-> <<"[">>]

H1 == [t |-> "h1", k |-> "", v |-> <<"H", "i">>]

Para == [t |-> "p", k |-> "", v |-> <<"t", "h", "e", "r", "e">>]

Row == [t |-> "row", k |-> "", v |-> <<"|", "x", "|">>]

TFull == <<Fence, KV("title", <<"T">>), KV("excerpt", <<"E">>), Fence, H1, Para>>

TSlug == <<Fence, KV("slug", <<"b">>), KV("title", <<"T">>), Fence, H1>>

TBad == <<Fence, BadYaml, Fence, H1>>

TNoFm == <<H1, Row>>

TOpen == <<Fence, KV("title", <<"T">>)>>

TEmpty == <<>>

Texts == {TFull, TSlug, TBad, TNoFm, TOpen, TEmpty}

(* Directory entries named <name>.md: files of any text, readable or not
   (permission or I/O error on read). *)
PostNames == {<<"a">> \o MD, <<"b">> \o MD}

(* Directory entries that are not <name>.md: a subdirectory or file "a"
   and a file "b.mdx". readFile never opens them: every path read ends
   in ".md". *)
OtherNames == {<<"a">>, <<"b">> \o MD \o <<"x">>}

Entries ==
  {[name |-> n, readable |-> TRUE, text |-> x] : n \in PostNames, x \in Texts}
    \cup {[name |-> n, readable |-> FALSE, text |-> TFull] : n \in PostNames}
    \cup {[name |-> n, readable |-> FALSE, text |-> TEmpty] : n \in OtherNames}

RECURSIVE SeqsUpTo(_, _)
(* The sequences over S of length at most n. *)
SeqsUpTo(S, n) ==
  IF n = 0 THEN {<<>>}
  ELSE LET shorter == SeqsUpTo(S, n - 1)
       IN shorter \cup {Append(q, x) : q \in {r \in shorter : Len(r) = n - 1}, x \in S}

(* A directory holds each name at most once; readdir returns the entries
   in an order the platform chooses. *)
Stores ==
  {st \in SeqsUpTo(Entries, MaxFiles) :
     \A i, j \in 1..Len(st) : st[i].name = st[j].name => i = j}

(* A line on which the conversion raises: nesting too deep for the
   recursive tree walk of the to-HTML stage. *)
Deep == [t |-> "deep", k |-> "", v |-> <<">", ">", ">">>]

TDeep == <<Fence, KV("title", <<"T">>), Fence, H1, Deep>>

LiveTexts == {TFull, TBad, TDeep}

LiveEntries == {[name |-> n, readable |-> TRUE, text |-> x] : n \in PostNames, x \in LiveTexts}

(* The directories the owner of the blog moves between by adding,
   changing and removing posts. *)
LiveStores ==
  {st \in SeqsUpTo(LiveEntries, MaxLiveFiles) :
     \A i, j \in 1..Len(st) : st[i].name = st[j].name => i = j}

(* The slugs a caller asks for: "z" names no file in any store. *)
ReqSlugs == {<<"a">>, <<"b">>, <<"z">>}

(* ------------------------------------------------------------------ *)
(* lib/post.ts: pure parts                                            *)
(* ------------------------------------------------------------------ *)

(* POSTS_FOLDER = path.resolve(process.cwd(), '_posts'), as the names on
   the way from the root. *)
PostsFolder == <<<<"cwd">>, <<"_posts">>>>

(* A Markdown file of the application that is not a post: it lies next to
   the directory _posts, not in it. *)
OutsidePath == <<<<"cwd">>, <<"s">> \o MD>>

OutsideText == <<[t |-> "p", k |-> "", v |-> <<"s", "e", "c", "r", "e", "t">>]>>

RECURSIVE Split(_, _)
(* The parts of s between the occurrences of the character sep. *)
Split(s, sep) ==
  IF \A i \in 1..Len(s) : s[i] # sep THEN <<s>>
  ELSE LET i == MinOf({j \in 1..Len(s) : s[j] = sep})
       IN <<SubSeq(s, 1, i - 1)>> \o Split(SubSeq(s, i + 1, Len(s)), sep)

RECURSIVE Resolve(_, _)
(* The file a path names: the operating system walks the names one by
   one from the directory reached so far; "" and "." stay, ".." goes to
   the parent. *)
Resolve(at, names) ==
  IF names = <<>> THEN at
  ELSE IF Head(names) \in {<<>>, <<".">>} THEN Resolve(at, Tail(names))
  ELSE IF Head(names) = <<".", ".">>
  THEN Resolve(IF at = <<>> THEN at ELSE SubSeq(at, 1, Len(at) - 1), Tail(names))
  ELSE Resolve(Append(at, Head(names)), Tail(names))

(* The file that `${POSTS_FOLDER}/${slug}.md` names. *)
PathOf(slug) == Resolve(PostsFolder, Split(slug \o MD, "/"))

(* fs.promises.readFile on `${POSTS_FOLDER}/${slug}.md`. *)
ReadFile(st, slug) ==
  LET path == PathOf(slug)
      name == path[Len(path)]
      inFolder == Len(path) = Len(PostsFolder) + 1
                    /\ SubSeq(path, 1, Len(PostsFolder)) = PostsFolder
      hit == {i \in 1..Len(st) : inFolder /\ st[i].name = name}
  IN IF path = OutsidePath THEN [k |-> "str", code |-> "", text |-> OutsideText]
     ELSE IF hit = {} THEN [k |-> "err", code |-> "ENOENT", text |-> <<>>]
     ELSE LET e == st[CHOOSE i \in hit : TRUE]
          IN IF e.readable THEN [k |-> "str", code |-> "", text |-> e.text]
             ELSE [k |-> "err", code |-> "EACCES", text |-> <<>>]

NullContent == [k |-> "null", code |-> "", text |-> <<>>]

(* A read that rejects without the catch handler. *)
GetPostContent_NoCatch(st, slug) == ReadFile(st, slug)

(* A catch handler that maps only a missing file to null. *)
GetPostContent_EnoentOnly(st, slug) ==
  LET r == ReadFile(st, slug)
  IN IF r.k = "err" /\ r.code = "ENOENT" THEN NullContent ELSE r

(* getPostContent: readFile(...).catch(() => null). *)
GetPostContent(st, slug) ==
  LET r == ReadFile(st, slug)
  IN IF r.k = "err" THEN NullContent ELSE r

(* getPostSlugs, after readdir: files.map(f => f.replace('.md', '')). *)
GetPostSlugs(st) ==
  [i \in 1..Len(st) |-> ReplaceFirst(st[i].name, MD, <<>>)]

EmptyData == [key \in {} |-> <<>>]

(* The YAML mapping of a front-matter block: key/value lines. *)
YamlLoad(block) ==
  LET kvs == {i \in 1..Len(block) : block[i].t = "kv"}
      keys == {block[i].k : i \in kvs}
  IN [key \in keys |-> block[MaxOf({i \in kvs : block[i].k = key})].v]

(* matter(text) of gray-matter: no opening fence, data is empty and the
   content is the whole input; otherwise the block up to the closing fence
   (or to the end of the text) is loaded as YAML, which throws on a
   malformed block, and the content is what follows the closing fence. *)
Matter(text) ==
  IF text = <<>> \/ Head(text).t # "fence"
  THEN [ok |-> TRUE, data |-> EmptyData, content |-> text]
  ELSE LET rest == Tail(text)
           closes == {i \in 1..Len(rest) : rest[i].t = "fence"}
           close == IF closes = {} THEN Len(rest) + 1 ELSE MinOf(closes)
           block == SubSeq(rest, 1, close - 1)
       IN IF \E i \in 1..Len(block) : block[i].t = "bad"
          THEN [ok |-> FALSE, data |-> EmptyData, content |-> <<>>]
          ELSE [ok |-> TRUE, data |-> YamlLoad(block),
                content |-> SubSeq(rest, close + 1, Len(rest))]

(* matter(text) when the module's cache holds text: gray-matter, called
   without options, stores the file object under its text before it
   parses it, and returns a copy of the stored object on every later call
   with that text. An object whose YAML block threw was stored unparsed:
   empty data, and the whole text as content. *)
CachedFile(text) ==
  IF Matter(text).ok THEN Matter(text)
  ELSE [ok |-> TRUE, data |-> EmptyData, content |-> text]

NoParsed ==
  [k |-> "pending", data |-> EmptyData, content |-> <<>>, error |-> "none", cached |-> FALSE]

(* parseContent: const content = await getPostContent(slug);
   return content ? matter(content) : null. The empty string is falsy; an
   exception of matter, or of the awaited read, leaves the function. *)
ParseContent(content) ==
  IF content.k = "err"
  THEN [k |-> "throw", data |-> EmptyData, content |-> <<>>, error |-> "fs", cached |-> FALSE]
  ELSE IF content.k = "str" /\ content.text # <<>>
  THEN LET hit == content.text \in matterCache
           m == IF hit THEN CachedFile(content.text) ELSE Matter(content.text)
       IN IF m.ok
          THEN [k |-> "file", data |-> m.data, content |-> m.content, error |-> "none",
                cached |-> hit]
          ELSE [k |-> "throw", data |-> EmptyData, content |-> <<>>, error |-> "yaml",
                cached |-> hit]
  ELSE [k |-> "null", data |-> EmptyData, content |-> <<>>, error |-> "none", cached |-> FALSE]

(* The texts the cache of matter holds once matter has run in
   parseContent on content. *)
CacheAfter(content) ==
  IF content.k = "str" /\ content.text # <<>>
  THEN matterCache \cup {content.text}
  ELSE matterCache

NoResult == [k |-> "pending", meta |-> EmptyData, html |-> <<>>]

Undefined == [k |-> "undefined", meta |-> EmptyData, html |-> <<>>]

(* getPostMeta's value: { slug, ...parsed.data }, or undefined. *)
GetPostMetaValue(slug, parsed) ==
  IF parsed.k = "file"
  THEN [k |-> "meta",
        meta |-> [key \in {"slug"} \cup DOMAIN parsed.data |->
                    IF key \in DOMAIN parsed.data THEN parsed.data[key] ELSE slug],
        html |-> <<>>]
  ELSE Undefined

(* ------------------------------------------------------------------ *)
(* The Markdown-to-HTML pipeline of getPost                           *)
(* ------------------------------------------------------------------ *)

LineText(l) == IF l.t = "kv" THEN <<l.k, ":">> \o l.v ELSE l.v

(* remark-parse: the text to a Markdown tree, one block node per line. *)
RemarkParse(src) ==
  [i \in 1..Len(src) |->
     [n |-> CASE src[i].t = "h1" -> "heading"
              [] src[i].t = "fence" -> "thematicBreak"
              [] OTHER -> "paragraph",
      raw |-> src[i].t,
      v |-> LineText(src[i])]]

(* remark-frontmatter: a fenced block at the very start of the document
   becomes a single yaml node. *)
RemarkFrontmatter(tree) ==
  LET closes == {i \in 2..Len(tree) : tree[i].n = "thematicBreak"}
  IN IF tree # <<>> /\ tree[1].n = "thematicBreak" /\ closes # {}
     THEN <<[n |-> "yaml", raw |-> "fence", v |-> <<>>]>>
            \o SubSeq(tree, MinOf(closes) + 1, Len(tree))
     ELSE tree

(* remark-gfm: the GitHub extensions; a pipe-delimited row is a table. *)
RemarkGfm(tree) ==
  [i \in 1..Len(tree) |->
     IF tree[i].raw = "row" THEN [tree[i] EXCEPT !.n = "table"] ELSE tree[i]]

HtmlTag(n) ==
  CASE n = "heading" -> "h1"
    [] n = "paragraph" -> "p"
    [] n = "thematicBreak" -> "hr"
    [] n = "table" -> "table"
    [] OTHER -> "div"

(* remark-rehype: the Markdown tree to an HTML tree; yaml nodes have no
   HTML counterpart and are left out. *)
RemarkRehype(tree) ==
  LET kept == SelectSeq(tree, LAMBDA x : x.n # "yaml")
  IN [i \in 1..Len(kept) |-> [n |-> HtmlTag(kept[i].n), raw |-> kept[i].raw, v |-> kept[i].v]]

RECURSIVE Serialize(_)
Serialize(tree) ==
  IF tree = <<>> THEN <<>>
  ELSE <<"<", Head(tree).n, ">">> \o Head(tree).v \o <<"</", Head(tree).n, ">">>
         \o Serialize(Tail(tree))

(* rehype-stringify: the HTML tree to a string. *)
RehypeStringify(tree) == Serialize(tree)

StageNames == <<"remarkParse", "remarkFrontmatter", "remarkGfm", "remarkRehype", "rehypeStringify">>

(* A serializer that keeps a count of the documents it has written. *)
RunStage_Stateful(n, x) ==
  CASE n = 1 -> RemarkParse(x)
    [] n = 2 -> RemarkFrontmatter(x)
    [] n = 3 -> RemarkGfm(x)
    [] n = 4 -> RemarkRehype(x)
    [] OTHER -> IF \E i \in 1..Len(other) : other[i].op = "post" /\ other[i].pc = "returned"
                THEN RehypeStringify(x) \o <<"<!--2-->">>
                ELSE RehypeStringify(x)

(* The n-th stage of unified().use(...)...process(...). *)
RunStage(n, x) ==
  CASE n = 1 -> RemarkParse(x)
    [] n = 2 -> RemarkFrontmatter(x)
    [] n = 3 -> RemarkGfm(x)
    [] n = 4 -> RemarkRehype(x)
    [] OTHER -> RehypeStringify(x)

(* A processor that stays broken once a conversion has failed. *)
StageRaises_Poisoned(n, x) ==
  \/ n = 4 /\ \E i \in 1..Len(x) : x[i].raw = "deep"
  \/ \E i \in 1..Len(other) : other[i].error = "conversion"

(* The n-th stage throws on x: process(...) rejects. *)
StageRaises(n, x) == n = 4 /\ \E i \in 1..Len(x) : x[i].raw = "deep"

(* The whole conversion of a body. *)
Convert(body) ==
  RehypeStringify(RemarkRehype(RemarkGfm(RemarkFrontmatter(RemarkParse(body)))))

(* A chain that leaves remark-gfm out. *)
NextStage_SkipGfm(stages) == IF Len(stages) = 2 THEN 4 ELSE Len(stages) + 1

(* The stage that runs once the stages `stages` have run: the plugins in
   the order of the .use(...) calls. *)
NextStage(stages) == Len(stages) + 1

(* ------------------------------------------------------------------ *)
(* Calls in progress                                                  *)
(* ------------------------------------------------------------------ *)

(* One invocation of getPostMeta ("meta") or getPost ("post") on a slug:
   its position, what it has read and parsed so far, its value. *)
NewTask(o, s) ==
  [op |-> o, slug |-> s, pc |-> "reading", content |-> NullContent,
   parsed |-> NoParsed, convIn |-> <<>>, tree |-> <<>>, stages |-> <<>>,
   result |-> NoResult, error |-> "none"]

IdleTop == [pc |-> "idle", slugs |-> <<>>, result |-> <<>>, error |-> "none"]

TaskDone(t) == t.pc \in {"returned", "notFound", "rejected"}

(* No call is in progress and no promise is outstanding. *)
Quiescent ==
  /\ top.pc \in {"idle", "returned", "rejected", "notFound"}
  /\ \A i \in 1..Len(task) : TaskDone(task[i])

(* What getPost hands to .process(...) if the whole file were passed. *)
PipelineInput_WholeFile(t) == t.content.text

(* getPost line 52: .process(parsed.content). *)
PipelineInput(t) == t.parsed.content

(* A check that lets a null parse through as an empty post. *)
NotFoundCheck_NoThrow(t) ==
  [t EXCEPT !.pc = "converting", !.convIn = t.parsed.content, !.tree = t.parsed.content]

(* getPost line 42: if (!parsed) notFound(), which throws the framework's
   not-found signal; otherwise the pipeline is started on the body. *)
NotFoundCheck(t) ==
  IF t.parsed.k # "file"
  THEN [t EXCEPT !.pc = "notFound"]
  ELSE [t EXCEPT !.pc = "converting", !.convIn = PipelineInput(t), !.tree = PipelineInput(t)]

(* getPostContent line 26: the read of call t settles on the store st. *)
AfterRead(t, st) == [t EXCEPT !.content = GetPostContent(st, t.slug), !.pc = "read"]

(* parseContent lines 16-17. *)
AfterParse(t) ==
  LET p == ParseContent(t.content)
  IN IF p.k = "throw"
     THEN [t EXCEPT !.parsed = p, !.pc = "rejected", !.error = p.error]
     ELSE [t EXCEPT !.parsed = p, !.pc = "parsed"]

(* getPostMeta lines 30-32. *)
AfterMeta(t) ==
  [t EXCEPT !.result = GetPostMetaValue(t.slug, t.parsed), !.pc = "returned"]

(* A pipeline that swallows the error of a stage and carries on with the
   tree as it is. *)
StageFailure_SkipStage(t) ==
  [t EXCEPT !.stages = Append(t.stages, StageNames[NextStage(t.stages)])]

(* getPost lines 46-52: the awaited process(...) rejects and nothing
   catches it, so getPost rejects with that error. *)
StageFailure(t) == [t EXCEPT !.pc = "rejected", !.error = "conversion"]

(* getPost lines 46-52: the next stage of the pipeline. *)
AfterStage(t) ==
  LET n == NextStage(t.stages)
  IN IF StageRaises(n, t.tree) THEN StageFailure(t)
     ELSE [t EXCEPT !.tree = RunStage(n, t.tree),
                    !.stages = Append(t.stages, StageNames[n])]

(* getPost lines 44-55: the result object. *)
AfterConvert(t) ==
  [t EXCEPT !.result = [k |-> "post", meta |-> t.parsed.data, html |-> t.tree],
            !.pc = "returned"]

(* The position of a call after its read has settled and before it has
   settled itself: its continuations are queued or running. *)
InPost(t) == t.pc \in {"read", "parsed", "converting"}

(* The next continuation of a call whose read has settled. *)
Continue(t) ==
  CASE t.pc = "read" -> AfterParse(t)
    [] t.pc = "parsed" /\ t.op = "meta" -> AfterMeta(t)
    [] t.pc = "parsed" /\ t.op = "post" -> NotFoundCheck(t)
    [] t.pc = "converting" /\ Len(t.stages) < Len(StageNames) -> AfterStage(t)
    [] t.pc = "converting" /\ Len(t.stages) = Len(StageNames) -> AfterConvert(t)
    [] OTHER -> t

(* The indices of the settled calls that produced a metadata object. *)
Present(tasks) == {i \in 1..Len(tasks) : tasks[i].result.k = "meta"}

RECURSIVE MetasOf(_, _)
(* The metadata objects of tasks, taken in the order idxs. *)
MetasOf(tasks, idxs) ==
  IF idxs = <<>> THEN <<>>
  ELSE IF Head(idxs) \in Present(tasks)
  THEN <<tasks[Head(idxs)].result.meta>> \o MetasOf(tasks, Tail(idxs))
  ELSE MetasOf(tasks, Tail(idxs))

(* A join that collects the values as the reads complete. *)
ListResult_CompletionOrder(tasks, order) == MetasOf(tasks, order)

(* getPostList lines 36-38: Promise.all keeps the order of its input
   array; filter drops the undefined values. *)
ListResult(tasks, order) == MetasOf(tasks, [i \in 1..Len(tasks) |-> i])

(* ------------------------------------------------------------------ *)
(* app/[slug]/page.tsx: the detail route                              *)
(* ------------------------------------------------------------------ *)

(* The value of a property the object does not have. *)
UndefinedValue == <<"undefined">>

Field(m, key) == IF key \in DOMAIN m THEN m[key] ELSE UndefinedValue

(* A description copied from the title. *)
MetadataOf_TitleTwice(m) ==
  [title |-> Field(m, "title"), description |-> Field(m, "title"),
   ogTitle |-> Field(m, "title"), ogDescription |-> Field(m, "title")]

(* generateMetadata lines 19-26: the object it returns. *)
MetadataOf(m) ==
  [title |-> Field(m, "title"), description |-> Field(m, "excerpt"),
   ogTitle |-> Field(m, "title"), ogDescription |-> Field(m, "excerpt")]

(* generateStaticParams lines 32-36: slugs.map(slug => ({params: {slug}})). *)
StaticParams(slugs) == [i \in 1..Len(slugs) |-> [params |-> [slug |-> slugs[i]]]]

(* generateMetadata lines 13-26, once getPostMeta has settled as t:
   a rejection passes through, undefined calls notFound(). *)
GenerateMetadataOutcome(t) ==
  IF t.pc = "rejected"
  THEN [pc |-> "rejected", slugs |-> <<>>, result |-> <<>>, error |-> t.error]
  ELSE IF t.result.k # "meta"
  THEN [pc |-> "notFound", slugs |-> <<>>, result |-> <<>>, error |-> "none"]
  ELSE [pc |-> "returned", slugs |-> <<>>, result |-> <<MetadataOf(t.result.meta)>>,
        error |-> "none"]

(* BlogPage lines 40-42, once getPost has settled as t: the not-found
   signal and a rejection pass through, otherwise <Post html meta />,
   which renders the html (components/post.tsx). *)
BlogPageOutcome(t) ==
  IF t.pc = "rejected"
  THEN [pc |-> "rejected", slugs |-> <<>>, result |-> <<>>, error |-> t.error]
  ELSE IF t.pc = "notFound"
  THEN [pc |-> "notFound", slugs |-> <<>>, result |-> <<>>, error |-> "none"]
  ELSE [pc |-> "returned", slugs |-> <<>>,
        result |-> <<[component |-> "Post", html |-> t.result.html]>>,
        error |-> "none"]

(* ------------------------------------------------------------------ *)
(* Actions                                                            *)
(* ------------------------------------------------------------------ *)

Init ==
  /\ store \in Stores
  /\ dirOk \in BOOLEAN
  /\ op = "none"
  /\ top = IdleTop
  /\ task = <<>>
  /\ settled = <<>>
  /\ other = <<>>
  /\ matterCache = {}

(* A caller invokes getPostSlugs(): readdir is issued. *)
CallGetPostSlugs ==
  /\ Quiescent
  /\ op' = "getPostSlugs"
  /\ top' = [IdleTop EXCEPT !.pc = "readdir"]
  /\ task' = <<>>
  /\ settled' = <<>>
  /\ UNCHANGED <<store, dirOk, other, matterCache>>

(* A caller invokes getPostList(), which first calls getPostSlugs(). *)
CallGetPostList ==
  /\ Quiescent
  /\ op' = "getPostList"
  /\ top' = [IdleTop EXCEPT !.pc = "readdir"]
  /\ task' = <<>>
  /\ settled' = <<>>
  /\ UNCHANGED <<store, dirOk, other, matterCache>>

(* A caller invokes getPostMeta(slug): the read of the file is issued. *)
CallGetPostMeta(s) ==
  /\ Quiescent
  /\ op' = "getPostMeta"
  /\ top' = IdleTop
  /\ task' = <<NewTask("meta", s)>>
  /\ settled' = <<>>
  /\ UNCHANGED <<store, dirOk, other, matterCache>>

(* A caller invokes getPost({slug}): the read of the file is issued. *)
CallGetPost(s) ==
  /\ Quiescent
  /\ op' = "getPost"
  /\ top' = IdleTop
  /\ task' = <<NewTask("post", s)>>
  /\ settled' = <<>>
  /\ UNCHANGED <<store, dirOk, other, matterCache>>

(* The framework calls generateMetadata({params}), which calls
   getPostMeta(params.slug). *)
CallGenerateMetadata(s) ==
  /\ Quiescent
  /\ op' = "generateMetadata"
  /\ top' = [IdleTop EXCEPT !.pc = "awaiting"]
  /\ task' = <<NewTask("meta", s)>>
  /\ settled' = <<>>
  /\ UNCHANGED <<store, dirOk, other, matterCache>>

(* The framework renders BlogPage({params}), which calls getPost(params). *)
CallBlogPage(s) ==
  /\ Quiescent
  /\ op' = "BlogPage"
  /\ top' = [IdleTop EXCEPT !.pc = "awaiting"]
  /\ task' = <<NewTask("post", s)>>
  /\ settled' = <<>>
  /\ UNCHANGED <<store, dirOk, other, matterCache>>

(* The framework calls generateStaticParams(), which calls getPostSlugs(). *)
CallGenerateStaticParams ==
  /\ Quiescent
  /\ op' = "generateStaticParams"
  /\ top' = [IdleTop EXCEPT !.pc = "readdir"]
  /\ task' = <<>>
  /\ settled' = <<>>
  /\ UNCHANGED <<store, dirOk, other, matterCache>>

(* generateMetadata resumes after await getPostMeta(...). *)
GenerateMetadataReturn ==
  /\ op = "generateMetadata"
  /\ top.pc = "awaiting"
  /\ TaskDone(task[1])
  /\ top' = GenerateMetadataOutcome(task[1])
  /\ UNCHANGED <<store, dirOk, op, task, settled, other, matterCache>>

(* BlogPage resumes after await getPost(...). *)
BlogPageReturn ==
  /\ op = "BlogPage"
  /\ top.pc = "awaiting"
  /\ TaskDone(task[1])
  /\ top' = BlogPageOutcome(task[1])
  /\ UNCHANGED <<store, dirOk, op, task, settled, other, matterCache>>

(* getPostSlugs lines 21-22: readdir settles; a failure of readdir leaves
   getPostSlugs (and getPostList) as a rejection. *)
ReaddirSettle ==
  /\ top.pc = "readdir"
  /\ top' = IF ~dirOk THEN [top EXCEPT !.pc = "rejected", !.error = "fs"]
            ELSE IF op = "getPostSlugs"
            THEN [top EXCEPT !.pc = "returned", !.slugs = GetPostSlugs(store),
                             !.result = GetPostSlugs(store)]
            ELSE IF op = "generateStaticParams"
            THEN [top EXCEPT !.pc = "returned", !.slugs = GetPostSlugs(store),
                             !.result = StaticParams(GetPostSlugs(store))]
            ELSE [top EXCEPT !.pc = "listed", !.slugs = GetPostSlugs(store)]
  /\ UNCHANGED <<store, dirOk, op, task, settled, other, matterCache>>

(* getPostList line 36: slugs.map(getPostMeta) calls getPostMeta on every
   slug, each call issuing its read, and Promise.all waits on them all. *)
FanOut ==
  /\ op = "getPostList"
  /\ top.pc = "listed"
  /\ task' = [i \in 1..Len(top.slugs) |-> NewTask("meta", top.slugs[i])]
  /\ top' = [top EXCEPT !.pc = "joining"]
  /\ UNCHANGED <<store, dirOk, op, settled, other, matterCache>>

(* A read that opens the file for writing and so empties it. *)
ReadSettle_Truncating(i) ==
  /\ task[i].pc = "reading"
  /\ task' = [task EXCEPT ![i].content = GetPostContent(store, task[i].slug),
                          ![i].pc = "read"]
  /\ store' = [j \in 1..Len(store) |->
                 IF store[j].name = task[i].slug \o MD
                 THEN [store[j] EXCEPT !.text = <<>>] ELSE store[j]]
  /\ UNCHANGED <<dirOk, op, top, settled, other, matterCache>>

(* getPostContent line 26: the read of task i settles. *)
ReadSettle(i) ==
  /\ task[i].pc = "reading"
  /\ task' = [task EXCEPT ![i] = AfterRead(task[i], store)]
  /\ UNCHANGED <<store, dirOk, op, top, settled, other, matterCache>>

(* parseContent lines 16-17 for task i. *)
Parse(i) ==
  /\ task[i].pc = "read"
  /\ task' = [task EXCEPT ![i] = AfterParse(task[i])]
  /\ matterCache' = CacheAfter(task[i].content)
  /\ settled' = IF task'[i].pc = "rejected" THEN Append(settled, i) ELSE settled
  /\ UNCHANGED <<store, dirOk, op, top, other>>

(* getPostMeta lines 30-32 for task i. *)
MetaReturn(i) ==
  /\ task[i].op = "meta"
  /\ task[i].pc = "parsed"
  /\ task' = [task EXCEPT ![i] = AfterMeta(task[i])]
  /\ settled' = Append(settled, i)
  /\ UNCHANGED <<store, dirOk, op, top, other, matterCache>>

(* getPost line 42 for task i. *)
PostCheck(i) ==
  /\ task[i].op = "post"
  /\ task[i].pc = "parsed"
  /\ task' = [task EXCEPT ![i] = NotFoundCheck(task[i])]
  /\ settled' = IF task'[i].pc = "notFound" THEN Append(settled, i) ELSE settled
  /\ UNCHANGED <<store, dirOk, op, top, other, matterCache>>

(* getPost lines 46-52: the next stage of the pipeline runs, or throws. *)
ConvertStage(i) ==
  /\ task[i].pc = "converting"
  /\ Len(task[i].stages) < Len(StageNames)
  /\ task' = [task EXCEPT ![i] = AfterStage(task[i])]
  /\ settled' = IF task'[i].pc = "rejected" THEN Append(settled, i) ELSE settled
  /\ UNCHANGED <<store, dirOk, op, top, other, matterCache>>

(* getPost lines 44-55: the result object. *)
PostReturn(i) ==
  /\ task[i].pc = "converting"
  /\ Len(task[i].stages) = Len(StageNames)
  /\ task' = [task EXCEPT ![i] = AfterConvert(task[i])]
  /\ settled' = Append(settled, i)
  /\ UNCHANGED <<store, dirOk, op, top, other, matterCache>>

(* getPostList lines 36-38: every getPostMeta has fulfilled; the list. *)
ListResolve ==
  /\ op = "getPostList"
  /\ top.pc = "joining"
  /\ \A i \in 1..Len(task) : task[i].pc = "returned"
  /\ top' = [top EXCEPT !.pc = "returned", !.result = ListResult(task, settled)]
  /\ UNCHANGED <<store, dirOk, op, task, settled, other, matterCache>>

(* Promise.all rejects with the first rejection among its promises, and
   so does getPostList. *)
ListReject ==
  /\ op = "getPostList"
  /\ top.pc = "joining"
  /\ \E i \in 1..Len(task) : task[i].pc = "rejected"
  /\ LET first == settled[MinOf({j \in 1..Len(settled) : task[settled[j]].pc = "rejected"})]
     IN top' = [top EXCEPT !.pc = "rejected", !.error = task[first].error]
  /\ UNCHANGED <<store, dirOk, op, task, settled, other, matterCache>>

Next ==
  \/ CallGetPostSlugs
  \/ CallGetPostList
  \/ \E s \in ReqSlugs : CallGetPostMeta(s)
  \/ \E s \in ReqSlugs : CallGetPost(s)
  \/ \E s \in ReqSlugs : CallGenerateMetadata(s)
  \/ \E s \in ReqSlugs : CallBlogPage(s)
  \/ CallGenerateStaticParams
  \/ GenerateMetadataReturn
  \/ BlogPageReturn
  \/ ReaddirSettle
  \/ FanOut
  \/ \E i \in 1..Len(task) : ReadSettle(i)
  \/ \E i \in 1..Len(task) : Parse(i)
  \/ \E i \in 1..Len(task) : MetaReturn(i)
  \/ \E i \in 1..Len(task) : PostCheck(i)
  \/ \E i \in 1..Len(task) : ConvertStage(i)
  \/ \E i \in 1..Len(task) : PostReturn(i)
  \/ ListResolve
  \/ ListReject

Spec == Init /\ [][Next]_vars

(* ------------------------------------------------------------------ *)
(* Requests side by side on one event loop, and a store that is edited *)
(* ------------------------------------------------------------------ *)

(* An event loop that hands out I/O completions while continuations are
   still queued. *)
Runnable_Never == FALSE

(* A continuation of an await is queued: the continuations of lib/post.ts
   and of the route make no I/O request of their own, and the event loop
   runs every queued continuation before it delivers the next I/O
   completion. *)
Runnable ==
  \/ \E i \in 1..Len(task) : InPost(task[i])
  \/ \E i \in 1..Len(other) : InPost(other[i])
  \/ top.pc = "listed"
  \/ /\ top.pc = "joining"
     /\ \/ \A i \in 1..Len(task) : task[i].pc = "returned"
        \/ \E i \in 1..Len(task) : task[i].pc = "rejected"
  \/ top.pc = "awaiting" /\ TaskDone(task[1])

(* A second request arrives while the first is being served: a
   getPostMeta(s) or a getPost({slug: s}) of its own. *)
CallOther(o, s) ==
  /\ \A i \in 1..Len(other) : TaskDone(other[i])
  /\ other' = <<NewTask(o, s)>>
  /\ UNCHANGED <<store, dirOk, op, top, task, settled, matterCache>>

(* getPostContent line 26: the read of the second request settles. *)
OtherReadSettle ==
  /\ other # <<>>
  /\ other[1].pc = "reading"
  /\ other' = <<AfterRead(other[1], store)>>
  /\ UNCHANGED <<store, dirOk, op, top, task, settled, matterCache>>

(* The next continuation of the second request runs. *)
OtherContinue ==
  /\ other # <<>>
  /\ InPost(other[1])
  /\ other' = <<Continue(other[1])>>
  /\ matterCache' = IF other[1].pc = "read" THEN CacheAfter(other[1].content) ELSE matterCache
  /\ UNCHANGED <<store, dirOk, op, top, task, settled>>

(* The owner of the blog adds, changes or removes posts. The values of the
   calls that ended before the edit have been handed to their callers. *)
Edit ==
  /\ Quiescent
  /\ \E st \in LiveStores : st # store /\ store' = st
  /\ op' = "none"
  /\ top' = IdleTop
  /\ task' = <<>>
  /\ settled' = <<>>
  /\ UNCHANGED <<dirOk, other, matterCache>>

LiveInit ==
  /\ store \in LiveStores
  /\ dirOk = TRUE
  /\ op = "none"
  /\ top = IdleTop
  /\ task = <<>>
  /\ settled = <<>>
  /\ other = <<>>
  /\ matterCache = {}

LiveNext ==
  \/ CallGetPostList
  \/ \E s \in ReqSlugs : CallGetPostMeta(s)
  \/ \E s \in ReqSlugs : CallGetPost(s)
  \/ \E s \in ReqSlugs : CallGenerateMetadata(s)
  \/ \E s \in ReqSlugs : CallBlogPage(s)
  \/ \E o \in {"meta", "post"}, s \in ReqSlugs : CallOther(o, s)
  \/ Edit
  \/ ~Runnable /\ ReaddirSettle
  \/ ~Runnable /\ \E i \in 1..Len(task) : ReadSettle(i)
  \/ ~Runnable /\ OtherReadSettle
  \/ OtherContinue
  \/ GenerateMetadataReturn
  \/ BlogPageReturn
  \/ FanOut
  \/ \E i \in 1..Len(task) : Parse(i)
  \/ \E i \in 1..Len(task) : MetaReturn(i)
  \/ \E i \in 1..Len(task) : PostCheck(i)
  \/ \E i \in 1..Len(task) : ConvertStage(i)
  \/ \E i \in 1..Len(task) : PostReturn(i)
  \/ ListResolve
  \/ ListReject

SpecLive == LiveInit /\ [][LiveNext]_vars

(* ------------------------------------------------------------------ *)
(* From the list view to the detail route                              *)
(* ------------------------------------------------------------------ *)

(* components/post-card.tsx line 19: href={`/${post.slug}`}. *)
Href(post) == <<"/">> \o post["slug"]

(* The route app/[slug]: the parameter slug is the path segment after
   the leading slash. *)
RouteParam(href) == Tail(href)

(* A visitor follows the link of the i-th card of the list that
   getPostList returned: the detail route calls getPost(params). *)
FollowLink(i) ==
  /\ op = "getPostList"
  /\ top.pc = "returned"
  /\ i \in 1..Len(top.result)
  /\ \A j \in 1..Len(other) : TaskDone(other[j])
  /\ other' = <<NewTask("post", RouteParam(Href(top.result[i])))>>
  /\ UNCHANGED <<store, dirOk, op, top, task, settled, matterCache>>

NavNext ==
  \/ CallGetPostList
  \/ ReaddirSettle
  \/ FanOut
  \/ \E i \in 1..Len(task) : ReadSettle(i)
  \/ \E i \in 1..Len(task) : Parse(i)
  \/ \E i \in 1..Len(task) : MetaReturn(i)
  \/ ListResolve
  \/ ListReject
  \/ \E i \in 1..MaxFiles : FollowLink(i)
  \/ OtherReadSettle
  \/ OtherContinue

SpecNav == Init /\ [][NavNext]_vars

(* ------------------------------------------------------------------ *)
(* A listing while the owner removes posts                             *)
(* ------------------------------------------------------------------ *)

(* The owner of the blog removes the j-th entry of the directory while
   getPostList is running. *)
RemoveFile(j) ==
  /\ op = "getPostList"
  /\ top.pc \in {"readdir", "listed", "joining"}
  /\ j \in 1..Len(store)
  /\ store' = SubSeq(store, 1, j - 1) \o SubSeq(store, j + 1, Len(store))
  /\ UNCHANGED <<dirOk, op, top, task, settled, other, matterCache>>

ChurnNext ==
  \/ CallGetPostList
  \/ ReaddirSettle
  \/ FanOut
  \/ \E i \in 1..Len(task) : ReadSettle(i)
  \/ \E i \in 1..Len(task) : Parse(i)
  \/ \E i \in 1..Len(task) : MetaReturn(i)
  \/ ListResolve
  \/ ListReject
  \/ \E j \in 1..MaxFiles : RemoveFile(j)

SpecChurn == Init /\ [][ChurnNext]_vars

(* ------------------------------------------------------------------ *)
(* Slugs that are paths                                                *)
(* ------------------------------------------------------------------ *)

(* Slugs a caller or a request may bring: a plain name, a name behind
   "./" and a name behind "../". *)
PathSlugs == {<<"a">>, <<".", "/", "a">>, <<".", ".", "/", "s">>}

PathNext ==
  \/ \E s \in PathSlugs : CallGetPostMeta(s)
  \/ \E s \in PathSlugs : CallGetPost(s)
  \/ \E s \in PathSlugs : CallGenerateMetadata(s)
  \/ \E s \in PathSlugs : CallBlogPage(s)
  \/ GenerateMetadataReturn
  \/ BlogPageReturn
  \/ \E i \in 1..Len(task) : ReadSettle(i)
  \/ \E i \in 1..Len(task) : Parse(i)
  \/ \E i \in 1..Len(task) : MetaReturn(i)
  \/ \E i \in 1..Len(task) : PostCheck(i)
  \/ \E i \in 1..Len(task) : ConvertStage(i)
  \/ \E i \in 1..Len(task) : PostReturn(i)

SpecPath == Init /\ [][PathNext]_vars

(* ------------------------------------------------------------------ *)
(* Properties                                                         *)
(* ------------------------------------------------------------------ *)

FileExists(st, slug) == \E i \in 1..Len(st) : st[i].name = slug \o MD

FileReadable(st, slug) ==
  \E i \in 1..Len(st) : st[i].name = slug \o MD /\ st[i].readable

FileText(st, slug) ==
  st[CHOOSE i \in 1..Len(st) : st[i].name = slug \o MD].text

(* The file's text opens with a fence and its block is well-formed YAML. *)
HasFrontMatter(text) ==
  /\ text # <<>>
  /\ text[1].t = "fence"
  /\ \A j \in 2..Len(text) :
       (\A c \in 2..(j - 1) : text[c].t # "fence") => text[j].t \in {"kv", "fence"}

(* The text after the front-matter block: after the first closing fence;
   all of the text when it does not open with a fence. *)
BodyOf(text) ==
  IF text = <<>> \/ text[1].t # "fence" THEN text
  ELSE LET closes == {c \in 2..Len(text) : text[c].t = "fence"}
       IN IF closes = {} THEN <<>> ELSE SubSeq(text, MinOf(closes) + 1, Len(text))

(* The key/value pairs a front-matter block declares. *)
Declared(text) ==
  LET closes == {c \in 2..Len(text) : text[c].t = "fence"}
      last == IF closes = {} THEN Len(text) ELSE MinOf(closes) - 1
  IN {<<text[j].k, text[j].v>> : j \in {x \in 2..last : text[x].t = "kv"}}

(* C1: for a slug with no file <slug>.md in the store, getPostMeta returns
   undefined and getPost signals not-found, and neither call (nor any
   per-slug call of a listing) ends with a filesystem error. *)
C1_MissingIsAbsent ==
  \A i \in 1..Len(task) :
    ~FileExists(store, task[i].slug) =>
      /\ task[i].pc # "rejected"
      /\ task[i].error = "none"
      /\ (task[i].op = "meta" /\ TaskDone(task[i]) =>
            task[i].pc = "returned" /\ task[i].result = Undefined)
      /\ (task[i].op = "post" /\ task[i].pc \notin {"reading", "read", "parsed"} =>
            task[i].pc = "notFound" /\ task[i].result = NoResult)

C1_Witness ==
  /\ op = "getPost"
  /\ Len(task) = 1
  /\ task[1].pc = "notFound"
  /\ ~FileExists(store, task[1].slug)

(* C2: a read that fails, whether the file is missing or unreadable, gives
   null content and an undefined getPostMeta, never an error, and a listing
   that returns holds no element for it. *)
C2_ReadFailureIsAbsence ==
  \A i \in 1..Len(task) :
    (~FileReadable(store, task[i].slug) /\ task[i].pc # "reading") =>
      /\ task[i].content = NullContent
      /\ task[i].pc # "rejected"
      /\ task[i].error = "none"
      /\ (task[i].op = "meta" /\ TaskDone(task[i]) => task[i].result = Undefined)
      /\ (op = "getPostList" /\ top.pc = "returned" =>
            /\ i \notin Present(task)
            /\ Len(top.result) <=
                 Cardinality({j \in 1..Len(task) : FileReadable(store, task[j].slug)}))

C2_Witness ==
  /\ op = "getPostList"
  /\ top.pc = "returned"
  /\ Len(top.result) >= 1
  /\ \E i \in 1..Len(task) :
       FileExists(store, task[i].slug) /\ ~FileReadable(store, task[i].slug)

MdNames(st) == {st[i].name : i \in {j \in 1..Len(st) : EndsWith(st[j].name, MD)}}

StripMd(n) == SubSeq(n, 1, Len(n) - Len(MD))

(* C3: getPostSlugs returns exactly the names <name> of the entries
   <name>.md, each once, and nothing for any other entry. *)
C3_SlugsAreTheMdNames ==
  (op = "getPostSlugs" /\ top.pc = "returned") =>
    /\ Range(top.result) = {StripMd(n) : n \in MdNames(store)}
    /\ \A i, j \in 1..Len(top.result) : top.result[i] = top.result[j] => i = j

(* C4: for a readable file with a front-matter block, getPostMeta returns
   the declared keys with their declared values plus slug, and slug is the
   slug that was asked for. *)
C4_MetaIsDeclaredPlusSlug ==
  \A i \in 1..Len(task) :
    ( /\ task[i].op = "meta"
      /\ task[i].pc = "returned"
      /\ FileReadable(store, task[i].slug)
      /\ HasFrontMatter(FileText(store, task[i].slug)) ) =>
      LET decl == Declared(FileText(store, task[i].slug))
          m == task[i].result.meta
      IN /\ task[i].result.k = "meta"
         /\ DOMAIN m = {d[1] : d \in decl} \cup {"slug"}
         /\ \A d \in decl : d[1] # "slug" => m[d[1]] = d[2]
         /\ m["slug"] = task[i].slug

(* C5: the list getPostList returns has one element per directory entry
   less the absent ones, and the slugs of its elements are pairwise
   distinct and all among the slugs getPostSlugs listed. *)
C5_ListShape ==
  (op = "getPostList" /\ top.pc = "returned") =>
    /\ Len(top.result) =
         Len(store) - Cardinality({i \in 1..Len(task) : task[i].result = Undefined})
    /\ \A i, j \in 1..Len(top.result) :
         top.result[i]["slug"] = top.result[j]["slug"] => i = j
    /\ \A i \in 1..Len(top.result) : top.result[i]["slug"] \in Range(top.slugs)

(* What getPostMeta yields for slug on the store as it stands. *)
MetaOnStore(st, slug) ==
  IF FileReadable(st, slug) /\ FileText(st, slug) # <<>>
  THEN [k |-> "meta",
        meta |-> [key \in {"slug"} \cup DOMAIN Matter(FileText(st, slug)).data |->
                    IF key \in DOMAIN Matter(FileText(st, slug)).data
                    THEN Matter(FileText(st, slug)).data[key] ELSE slug],
        html |-> <<>>]
  ELSE Undefined

RECURSIVE InListingOrder(_, _)
InListingOrder(st, slugs) ==
  IF slugs = <<>> THEN <<>>
  ELSE IF MetaOnStore(st, Head(slugs)).k = "meta"
  THEN <<MetaOnStore(st, Head(slugs)).meta>> \o InListingOrder(st, Tail(slugs))
  ELSE InListingOrder(st, Tail(slugs))

(* C6: the list getPostList returns is the metadata of the listed slugs in
   listing order with the absent ones removed, whatever the order in which
   the per-slug reads completed. *)
C6_ListKeepsListingOrder ==
  (op = "getPostList" /\ top.pc = "returned") =>
    top.result = InListingOrder(store, top.slugs)

C6_Witness ==
  /\ op = "getPostList"
  /\ top.pc = "returned"
  /\ settled = <<2, 1>>
  /\ Len(top.result) = 2
  /\ top.result[1] # top.result[2]

(* C7: a failure on one file, a corrupt front-matter block included, never
   makes getPostList reject: with the directory listable, the call and all
   its per-slug calls complete. *)
C7_ListSurvivesOneBadFile ==
  op = "getPostList" =>
    /\ \A i \in 1..Len(task) : task[i].pc # "rejected"
    /\ (top.pc = "rejected" => ~dirOk)

(* C8: no operation ends with a raw filesystem or parsing exception. *)
C8_NoRawErrorEscapes ==
  /\ top.error = "none"
  /\ \A i \in 1..Len(task) : task[i].error = "none"

(* C9: for a readable, non-empty file whose front-matter parses, getPost
   gives the pipeline the body only, with no line of the front-matter
   block, and returns the file's front-matter data together with the
   conversion of that body. *)
C9_PostIsBodyConverted ==
  \A i \in 1..Len(task) :
    ( /\ task[i].op = "post"
      /\ TaskDone(task[i])
      /\ FileReadable(store, task[i].slug)
      /\ FileText(store, task[i].slug) # <<>>
      /\ Matter(FileText(store, task[i].slug)).ok ) =>
      LET text == FileText(store, task[i].slug)
      IN /\ task[i].pc = "returned"
         /\ task[i].convIn = BodyOf(text)
         /\ HasFrontMatter(text) =>
              \A j \in 1..Len(task[i].convIn) : task[i].convIn[j].t \notin {"fence", "kv"}
         /\ task[i].result.k = "post"
         /\ task[i].result.meta = Matter(text).data
         /\ task[i].result.html = Convert(BodyOf(text))

C9_Witness ==
  /\ op = "getPost"
  /\ Len(task) = 1
  /\ task[1].pc = "returned"
  /\ HasFrontMatter(FileText(store, task[1].slug))
  /\ task[1].result.html # <<>>
  /\ DOMAIN task[1].result.meta # {}

(* C10: when getPost finds the post absent, no pipeline stage has run or
   will run and the call has no result object. *)
C10_NotFoundBeforeConversion ==
  \A i \in 1..Len(task) :
    (task[i].op = "post" /\ task[i].parsed.k = "null") =>
      /\ task[i].pc \in {"parsed", "notFound"}
      /\ task[i].stages = <<>>
      /\ task[i].result = NoResult

C10_Witness ==
  /\ op = "getPost"
  /\ Len(task) = 1
  /\ task[1].pc = "notFound"
  /\ task[1].parsed.k = "null"
  /\ task[1].stages = <<>>

(* The n first stages of the chain applied to x, one after the other. *)
StagesApplied(n, x) ==
  CASE n = 0 -> x
    [] n = 1 -> RemarkParse(x)
    [] n = 2 -> RemarkFrontmatter(RemarkParse(x))
    [] n = 3 -> RemarkGfm(RemarkFrontmatter(RemarkParse(x)))
    [] n = 4 -> RemarkRehype(RemarkGfm(RemarkFrontmatter(RemarkParse(x))))
    [] OTHER -> RehypeStringify(RemarkRehype(RemarkGfm(RemarkFrontmatter(RemarkParse(x)))))

FiveStages ==
  <<"remarkParse", "remarkFrontmatter", "remarkGfm", "remarkRehype", "rehypeStringify">>

(* C11: at every point of a conversion the stages that have run are the
   first ones of parse, front-matter, GFM, to-HTML-tree, serialize, each
   once and in that order, the tree is their composition on the body, and
   a getPost that returns has run all five. *)
C11_FiveStagesInOrder ==
  \A i \in 1..Len(task) :
    task[i].op = "post" =>
      /\ Len(task[i].stages) <= Len(FiveStages)
      /\ task[i].stages = SubSeq(FiveStages, 1, Len(task[i].stages))
      /\ task[i].pc = "converting" =>
           task[i].tree = StagesApplied(Len(task[i].stages), task[i].convIn)
      /\ task[i].pc = "returned" =>
           /\ task[i].stages = FiveStages
           /\ task[i].result.html = StagesApplied(5, task[i].convIn)

C11_Witness ==
  /\ op = "getPost"
  /\ Len(task) = 1
  /\ task[1].pc = "returned"
  /\ task[1].stages = FiveStages
  /\ \E j \in 1..Len(task[1].convIn) : task[1].convIn[j].t = "row"

(* C14: no step of any repository operation changes the Source Store:
   neither its entries, nor their contents, nor the directory itself. *)
C14_StoreUnchanged == [][store' = store /\ dirOk' = dirOk]_vars

C14_Witness ==
  /\ op = "getPostList"
  /\ top.pc = "returned"
  /\ Len(top.result) = Len(store)
  /\ Len(store) >= 1

(* C15: getPostList issues the read of every listed slug before waiting,
   and when it completes, by returning or by rejecting, every one of
   those per-slug calls has settled. *)
C15_FanOutFanIn ==
  op = "getPostList" =>
    /\ top.pc = "joining" => Len(task) = Len(top.slugs)
    /\ top.pc \in {"returned", "rejected"} =>
         \A i \in 1..Len(task) : TaskDone(task[i])

(* C20: a per-slug call ends absent (getPostMeta undefined, getPost
   not-found) exactly when the read of the file failed; a readable file
   without a front-matter block, the empty file included, gives the
   object {slug} and a conversion of the whole file. *)
C20_AbsentIffReadFailed ==
  \A i \in 1..Len(task) :
    /\ (task[i].pc = "returned" /\ task[i].op = "meta") =>
         (task[i].result = Undefined <=> ~FileReadable(store, task[i].slug))
    /\ task[i].pc = "notFound" => ~FileReadable(store, task[i].slug)
    /\ ( /\ task[i].pc \in {"returned", "notFound"}
         /\ FileReadable(store, task[i].slug)
         /\ ~HasFrontMatter(FileText(store, task[i].slug))
         /\ Matter(FileText(store, task[i].slug)).ok ) =>
         /\ task[i].op = "meta" =>
              task[i].result.meta = [key \in {"slug"} |-> task[i].slug]
         /\ task[i].op = "post" =>
              /\ task[i].pc = "returned"
              /\ task[i].convIn = FileText(store, task[i].slug)

(* The value the front-matter of text declares for key. *)
DeclaredValue(text, key) ==
  IF \E d \in Declared(text) : d[1] = key
  THEN (CHOOSE d \in Declared(text) : d[1] = key)[2]
  ELSE <<"undefined">>

(* C19: generateMetadata signals not-found exactly when getPostMeta gave
   undefined, and otherwise returns the post's title as title and its
   excerpt as description, the same two as the Open Graph fields;
   BlogPage renders a Post only when getPost returned, and passes the
   not-found signal on otherwise. *)
C19_RouteSurfacesAbsence ==
  /\ (op = "generateMetadata" /\ top.pc # "awaiting") =>
       /\ top.pc = "notFound" <=> task[1].result = Undefined
       /\ top.pc = "returned" =>
            LET text == FileText(store, task[1].slug)
                md == top.result[1]
            IN /\ md.title = DeclaredValue(text, "title")
               /\ md.description = DeclaredValue(text, "excerpt")
               /\ md.ogTitle = md.title
               /\ md.ogDescription = md.description
  /\ (op = "BlogPage" /\ top.pc # "awaiting") =>
       /\ top.pc = "notFound" <=> task[1].pc = "notFound"
       /\ top.pc = "returned" =>
            /\ task[1].pc = "returned"
            /\ top.result = <<[component |-> "Post", html |-> task[1].result.html]>>
       /\ top.pc # "returned" => top.result = <<>>

C19_Witness ==
  /\ op = "generateMetadata"
  /\ top.pc = "returned"
  /\ top.result[1].title = <<"T">>
  /\ top.result[1].description = <<"E">>

(* The calls on a slug that are or were in progress, of both requests. *)
Requests == {task[i] : i \in 1..Len(task)} \cup {other[i] : i \in 1..Len(other)}

(* The body holds a line the conversion cannot process. *)
Unconvertible(body) == \E j \in 1..Len(body) : body[j].t = "deep"

(* C12: two conversions that were given the same body have written the
   same HTML, and the same tree after the same number of stages, whichever
   request ran them and whatever was converted before or meanwhile. *)
C12_ConversionDeterministic ==
  \A t1, t2 \in Requests :
    (t1.op = "post" /\ t2.op = "post" /\ t1.convIn = t2.convIn) =>
      /\ (t1.pc = "returned" /\ t2.pc = "returned") => t1.result.html = t2.result.html
      /\ (t1.pc = "converting" /\ t2.pc = "converting" /\ t1.stages = t2.stages) =>
           t1.tree = t2.tree

C12_Witness ==
  /\ Len(task) = 1
  /\ Len(other) = 1
  /\ task[1].op = "post" /\ task[1].pc = "returned"
  /\ other[1].op = "post" /\ other[1].pc = "returned"
  /\ task[1].slug # other[1].slug
  /\ task[1].convIn = other[1].convIn
  /\ task[1].result.html # <<>>

(* C13: a getPost whose body makes a stage raise never returns: it ends
   rejected with the conversion error and no result object, the tree it
   had built is not handed out, and BlogPage on it rejects with that
   error and renders nothing. *)
C13_ConversionFailsWhole ==
  /\ \A t \in Requests :
       (t.op = "post" /\ Unconvertible(t.convIn)) =>
         /\ t.pc \in {"converting", "rejected"}
         /\ t.result = NoResult
         /\ t.pc = "rejected" => t.error = "conversion"
  /\ \A t \in Requests :
       t.error = "conversion" => t.pc = "rejected" /\ t.result = NoResult
  /\ (op = "BlogPage" /\ top.pc # "awaiting" /\ Unconvertible(task[1].convIn)) =>
       top.pc = "rejected" /\ top.error = "conversion" /\ top.result = <<>>

C13_Witness ==
  /\ op = "BlogPage"
  /\ top.pc = "rejected"
  /\ top.error = "conversion"
  /\ task[1].stages # <<>>
  /\ task[1].tree # task[1].convIn

(* What a file of the store holds for a reader: its text, or nothing. *)
StoreContent(st, slug) ==
  IF FileReadable(st, slug)
  THEN [k |-> "str", code |-> "", text |-> FileText(st, slug)]
  ELSE NullContent

(* How a per-slug call that read c ends when nothing else is going on;
   stale: the front-matter splitter had seen this very text before. A
   text whose block is malformed is then taken as a text without a
   block. *)
AloneOutcome(o, slug, c, stale) ==
  IF c.k # "str" \/ c.text = <<>>
  THEN IF o = "meta"
       THEN [pc |-> "returned", result |-> Undefined, error |-> "none"]
       ELSE [pc |-> "notFound", result |-> NoResult, error |-> "none"]
  ELSE IF ~Matter(c.text).ok /\ ~stale
  THEN [pc |-> "rejected", result |-> NoResult, error |-> "yaml"]
  ELSE LET data == IF Matter(c.text).ok THEN Matter(c.text).data ELSE EmptyData
           body == IF Matter(c.text).ok THEN BodyOf(c.text) ELSE c.text
       IN IF o = "meta"
          THEN [pc |-> "returned",
                result |-> [k |-> "meta",
                            meta |-> [key \in {"slug"} \cup DOMAIN data |->
                                        IF key \in DOMAIN data THEN data[key] ELSE slug],
                            html |-> <<>>],
                error |-> "none"]
          ELSE IF Unconvertible(body)
          THEN [pc |-> "rejected", result |-> NoResult, error |-> "conversion"]
          ELSE [pc |-> "returned",
                result |-> [k |-> "post", meta |-> data, html |-> Convert(body)],
                error |-> "none"]

OutcomeOf(t) == [pc |-> t.pc, result |-> t.result, error |-> t.error]

(* C16: a per-slug call that has ended, and a listing that has returned,
   ended as the store of that moment alone determines, whatever was read
   or returned in earlier calls or before the store was last edited; the
   calls of the other request ended as what they read alone determines. *)
C16_NothingCarriedOver ==
  /\ \A i \in 1..Len(task) :
       TaskDone(task[i]) =>
         OutcomeOf(task[i]) =
           AloneOutcome(task[i].op, task[i].slug, StoreContent(store, task[i].slug), FALSE)
  /\ (op = "getPostList" /\ top.pc = "returned") =>
       /\ \A i \in 1..Len(task) : task[i].pc = "returned"
       /\ top.result = InListingOrder(store, GetPostSlugs(store))
  /\ \A i \in 1..Len(other) :
       TaskDone(other[i]) =>
         OutcomeOf(other[i]) =
           AloneOutcome(other[i].op, other[i].slug, other[i].content, FALSE)

(* Some request's getPost has failed in the conversion. *)
ConversionFailed(ts) == \E i \in 1..Len(ts) : ts[i].op = "post" /\ ts[i].error = "conversion"

(* C17: once a getPost of one request has failed in the conversion, every
   call of the other request that ends, and a listing that returns, ends
   as it would have alone, and a conversion of the other request that is
   under way has the tree it would have alone. *)
C17_FailureIsolated ==
  /\ ConversionFailed(other) =>
       /\ \A i \in 1..Len(task) :
            /\ TaskDone(task[i]) =>
                 OutcomeOf(task[i]) =
                   AloneOutcome(task[i].op, task[i].slug,
                                StoreContent(store, task[i].slug), task[i].parsed.cached)
            /\ task[i].pc = "converting" =>
                 task[i].tree = StagesApplied(Len(task[i].stages), task[i].convIn)
       /\ (op = "getPostList" /\ top.pc \in {"returned", "rejected"}) =>
            /\ top.pc = "returned" <=> \A i \in 1..Len(task) : task[i].pc # "rejected"
            /\ top.pc = "returned" =>
                 top.result = MetasOf(task, [i \in 1..Len(task) |-> i])
  /\ ConversionFailed(task) =>
       \A i \in 1..Len(other) :
         TaskDone(other[i]) =>
           OutcomeOf(other[i]) =
             AloneOutcome(other[i].op, other[i].slug, other[i].content,
                          other[i].parsed.cached)

C17_Witness ==
  /\ ConversionFailed(other)
  /\ op = "getPost"
  /\ task[1].pc = "returned"
  /\ task[1].result.html # <<>>
  /\ task[1].slug = other[1].slug

(* C18: in a call the content is read before it is split and split before
   it is converted, and no two calls on one slug, of one request or of
   two, are between the end of their read and their own end at the same
   time. *)
C18_NoOverlapPerSlug ==
  /\ \A t \in Requests :
       /\ t.pc = "reading" => t.parsed = NoParsed /\ t.stages = <<>> /\ t.convIn = <<>>
       /\ t.pc = "read" => t.parsed = NoParsed /\ t.stages = <<>> /\ t.convIn = <<>>
       /\ t.stages # <<>> => t.parsed.k = "file"
  /\ \A i, j \in 1..Len(task) :
       (i # j /\ task[i].slug = task[j].slug) => ~(InPost(task[i]) /\ InPost(task[j]))
  /\ \A i \in 1..Len(task), j \in 1..Len(other) :
       task[i].slug = other[j].slug => ~(InPost(task[i]) /\ InPost(other[j]))

C18_Witness ==
  /\ op = "BlogPage"
  /\ Len(other) = 1
  /\ other[1].op = "meta"
  /\ other[1].slug = task[1].slug
  /\ other[1].pc = "reading"
  /\ task[1].pc = "converting"
  /\ Len(task[1].stages) = 2

(* The slugs a returned getPostSlugs or generateStaticParams handed out. *)
SlugsHandedOut ==
  IF op = "generateStaticParams"
  THEN [i \in 1..Len(top.result) |-> top.result[i].params.slug]
  ELSE top.result

(* C21: getPostSlugs and generateStaticParams hand out one slug per
   directory entry, and <slug>.md, the name getPostContent reads in
   POSTS_FOLDER, is the name of the entry the slug was derived from. *)
C21_SlugRoundTrip ==
  (op \in {"getPostSlugs", "generateStaticParams"} /\ top.pc = "returned") =>
    /\ Len(SlugsHandedOut) = Len(store)
    /\ \A i \in 1..Len(store) : SlugsHandedOut[i] \o MD = store[i].name

(* C22: on an unchanged store, the getPost reached through the link of an
   element of the returned list does not end not-found (nor in an error):
   it returns, it has read the file the element was made from, and its
   metadata is that file's front-matter. *)
C22_ListToDetail ==
  ( /\ op = "getPostList"
    /\ top.pc = "returned"
    /\ Len(other) = 1
    /\ TaskDone(other[1]) ) =>
    \A i \in Present(task) :
      RouteParam(Href(task[i].result.meta)) = other[1].slug =>
        /\ other[1].pc = "returned"
        /\ other[1].slug = task[i].slug
        /\ other[1].result.meta = task[i].parsed.data

(* The per-slug calls whose read of the file succeeded. *)
ReadOk(tasks) == {i \in 1..Len(tasks) : tasks[i].content.k = "str"}

(* C23: with the directory listable and files removed while getPostList
   runs, neither getPostList nor any of its per-slug calls ends in an
   error, and the list it returns holds one element for every call whose
   read succeeded and none for the others, in listing order, each with a
   slug of its own directory listing. *)
C23_ListSurvivesRemoval ==
  (op = "getPostList" /\ dirOk) =>
    /\ top.pc # "rejected"
    /\ \A i \in 1..Len(task) : task[i].pc # "rejected"
    /\ top.pc = "returned" =>
         /\ Present(task) = ReadOk(task)
         /\ top.result = MetasOf(task, [i \in 1..Len(task) |-> i])
         /\ \A i \in 1..Len(top.result) : top.result[i]["slug"] \in Range(top.slugs)

(* The path names a file directly inside POSTS_FOLDER. *)
DirectlyInside(path) ==
  /\ Len(path) = 3
  /\ path[1] = <<"cwd">>
  /\ path[2] = <<"_posts">>

(* C24: whatever the slug, a call that has read a file has read a file
   that lies directly inside POSTS_FOLDER: its content is the text of an
   entry of the directory, and nothing of a file elsewhere reaches the
   value of the call. *)
C24_ReadConfinement ==
  \A i \in 1..Len(task) :
    task[i].content.k = "str" =>
      /\ DirectlyInside(PathOf(task[i].slug))
      /\ \E j \in 1..Len(store) : store[j].readable /\ store[j].text = task[i].content.text
      /\ task[i].content.text # OutsideText

====
